---- MODULE Spec2Model ----
(***************************************************************************)
(* A model of the v4l2 capture session: the Builder that configures and    *)
(* opens a device (src/src/capture.rs, Builder), the Capture session that  *)
(* owns the device handle and the pool of memory mappings                  *)
(* (src/src/capture.rs, Capture), and the device handle whose methods are  *)
(* single ioctl exchanges (src/src/sys/device.rs, V4l2Device).             *)
(*                                                                         *)
(* The kernel is the environment.  Its side of the buffer queue (which     *)
(* indices exist, which are queued, which are filled) is state; whether a  *)
(* control operation is rejected is an input of the action that issues it. *)
(* Every public operation is one action.  The system calls an operation    *)
(* issued, in order and with their outcome, are recorded in lastCall.      *)
(***************************************************************************)
EXTENDS Integers, Sequences, FiniteSets, TLC

\* ------------------------------------------------------------------ bounds
MaxCount  == 2   \* largest count a caller passes to prepare_mmapped
MaxGrant  == 3   \* largest number of buffers the kernel grants
MaxFormat == 3   \* pixel format codes are 1..MaxFormat (0 is the unset code)
MaxEnum   == 2   \* longest format list a device enumerates
MaxCloses == 2   \* a raw descriptor is wrapped in a handle again while fewer closes were issued

\* ------------------------------------------------------- program constants
V4L2_MODE_HIGHQUALITY == 1
V4L2_CAP_TIMEPERFRAME == 4096
V4L2_FIELD_ANY        == 0
V4L2_FIELD_NONE       == 1

VARIABLES
    phase,      \* "building": a Builder exists; "live": a Capture exists; "dead": neither;
                \* "handle": a V4l2Device exists on its own; "raw": its descriptor was
                \* taken out of it; "gone": it was dropped, or could not be opened
    builder,    \* the Builder's fields
    fd,         \* the device descriptor: "none", "open" or "closed"
    closeCount, \* how many times close(fd) was issued
    buffers,    \* Capture.buffers: the sequence of mappings
    granted,    \* kernel: number of buffers of the current request
    gen,        \* kernel: tag of the current buffer request; it alternates, so that
                \* the buffers of a request differ from those of the one before
    queued,     \* kernel: indices enqueued and not yet dequeued
    streaming,  \* kernel: stream-on is in effect
    held,       \* caller: indices of descriptors taken and not yet returned
    view,       \* caller: <<m>> while the borrow returned by take_frame is alive
    inCycle,    \* TRUE from a clean successful start() through take/return cycles
    stopped,    \* TRUE after a successful stop(), until the next prepare/start/unprepare
    lastCall,   \* the most recent operation: name, result, calls issued
    pre,        \* the session as it was when the most recent operation was called
    handle,     \* the descriptor of a V4l2Device used on its own: "none", "open", "closed"
    handleCloses \* how many times close was issued for that descriptor

vars == <<phase, builder, fd, closeCount, buffers, granted, gen, queued,
          streaming, held, view, inCycle, stopped, lastCall, pre, handle, handleCloses>>

kernelVars == <<granted, gen, queued, streaming>>
callerVars == <<held, view, inCycle, stopped>>
handleVars == <<handle, handleCloses>>

\* What an operation finds when it is called: whether the call before it was
\* an unprepare or a successful stop, whether the stream is on, whether the
\* session was stopped, and who has which buffer.
Snapshot ==
    [afterUnprepare |-> lastCall.op = "unprepare",
     afterStop |-> lastCall.op = "stop" /\ lastCall.result = "Ok",
     streaming |-> streaming, stopped |-> stopped, queued |-> queued, held |-> held]

\* ------------------------------------------------------------ call records
\* One system call as issued: its name, its argument, whether it succeeded
\* and what it returned.
Sys(call, arg, ok, ret) == [call |-> call, arg |-> arg, ok |-> ok, ret |-> ret]

\* The outcome of one public operation.  errOf is the position in trace of
\* the call whose error the operation returned (0 when there is none).
Call(op, arg, result, errOf, trace) ==
    [op |-> op, arg |-> arg, result |-> result, errOf |-> errOf, trace |-> trace]

\* Arguments and return values are records, so that any two of them can be
\* compared: a number, nothing, or a structure of the program.
N(i) == [n |-> i]
Void == [void |-> TRUE]

Positions(trace, call) == {p \in 1..Len(trace) : trace[p].call = call}

Closes(trace) == Cardinality(Positions(trace, "close"))

\* A slip: the mask is tested for being non-zero, not for the bit.
HasBit_nonzero(x, bit) == x # 0

\* Bit test, as (x & bit) != 0 for a single-bit mask.
HasBit(x, bit) == (x \div bit) % 2 = 1

\* ---------------------------------------------------------------- Builder
NoInput == [some |-> FALSE, val |-> 0]

\* Builder::with_device
with_device(path) ==
    [path |-> path, input |-> NoInput, capturemode |-> 0,
     timeperframe |-> <<1, 30>>,
     format |-> [width |-> 0, height |-> 0, pixelformat |-> 0,
                 field |-> V4L2_FIELD_ANY]]

Paths       == {"/dev/video0", "/dev/video1"}
Inputs      == {0, 1}
Sizes       == {<<640, 480>>}
FormatCodes == 1..MaxFormat
FrameTimes  == {<<1, 60>>}

\* The format lists a device can enumerate: <<1>>, <<1,2>>, ... and the empty one.
DeviceFormatLists == {[i \in 1..n |-> i] : n \in 0..MaxEnum}
\* The stream parameters a device reports: the capability mask has the
\* per-frame-time bit or not, and the high-quality bit or not.
DeviceParms ==
    {[capability |-> c + h, capturemode |-> 0, timeperframe |-> <<1, 25>>] :
        c \in {0, V4L2_CAP_TIMEPERFRAME}, h \in {0, V4L2_MODE_HIGHQUALITY}}

BuilderOnly ==
    UNCHANGED <<phase, fd, closeCount, buffers, kernelVars, callerVars, lastCall, pre,
                handleVars>>

SetDevice(path) ==
    /\ phase = "building"
    /\ builder' = [builder EXCEPT !.path = path]
    /\ BuilderOnly

\* A slip: the setter selects the input on the device right away.
SetInput_eager(input) ==
    /\ phase = "building"
    /\ builder' = [builder EXCEPT !.input = [some |-> TRUE, val |-> input]]
    /\ lastCall' = Call("input", N(input), "Ok", 0,
                        <<Sys("S_INPUT", N(input), TRUE, Void)>>)
    /\ UNCHANGED <<phase, fd, closeCount, buffers, kernelVars, callerVars, pre, handleVars>>

SetInput(input) ==
    /\ phase = "building"
    /\ builder' = [builder EXCEPT !.input = [some |-> TRUE, val |-> input]]
    /\ BuilderOnly

SetHighQuality ==
    /\ phase = "building"
    /\ builder' = [builder EXCEPT !.capturemode = V4L2_MODE_HIGHQUALITY]
    /\ BuilderOnly

SetVideoSize(width, height) ==
    /\ phase = "building"
    /\ builder' = [builder EXCEPT !.format.width = width, !.format.height = height]
    /\ BuilderOnly

SetPixelFormat(fmt) ==
    /\ phase = "building"
    /\ builder' = [builder EXCEPT !.format.pixelformat = fmt]
    /\ BuilderOnly

SetProgressive ==
    /\ phase = "building"
    /\ builder' = [builder EXCEPT !.format.field = V4L2_FIELD_NONE]
    /\ BuilderOnly

SetTimePerFrame(num, den) ==
    /\ phase = "building"
    /\ builder' = [builder EXCEPT !.timeperframe = <<num, den>>]
    /\ BuilderOnly

\* A slip: the check accepts the device as soon as it enumerates any format
\* (`.next()` where `.find(..)` is meant).
FindFormat_any(fmts, want, index, trace) ==
    IF index >= Len(fmts)
    THEN [found |-> FALSE, trace |-> Append(trace, Sys("ENUM_FMT", N(index), FALSE, Void))]
    ELSE [found |-> TRUE,
          trace |-> Append(trace, Sys("ENUM_FMT", N(index), TRUE, N(fmts[index + 1])))]

\* SupportedFormats::next driven by Iterator::find: ENUM_FMT for index,
\* index+1, ... until the wanted code is returned or the kernel rejects the
\* index.  fmts is the list the kernel answers for; trace collects the calls.
RECURSIVE FindFormat(_, _, _, _)
FindFormat(fmts, want, index, trace) ==
    IF index >= Len(fmts)
    THEN [found |-> FALSE, trace |-> Append(trace, Sys("ENUM_FMT", N(index), FALSE, Void))]
    ELSE IF fmts[index + 1] = want
    THEN [found |-> TRUE,
          trace |-> Append(trace, Sys("ENUM_FMT", N(index), TRUE, N(fmts[index + 1])))]
    ELSE FindFormat(fmts, want, index + 1,
                    Append(trace, Sys("ENUM_FMT", N(index), TRUE, N(fmts[index + 1]))))

\* The stream parameters open() writes back: the capture mode always, the
\* frame time only under the capability bit.
WrittenParm(b, parm) ==
    [capability   |-> parm.capability,
     capturemode  |-> b.capturemode,
     timeperframe |-> IF HasBit(parm.capability, V4L2_CAP_TIMEPERFRAME)
                      THEN b.timeperframe ELSE parm.timeperframe]

\* Drop for V4l2Device.
DropDevice == <<Sys("close", Void, TRUE, Void)>>

\* An early return of Builder::open after the device was opened: `video`
\* goes out of scope.
OpenFail(b, result, trace) ==
    Call("open", b, result, IF result = "Err" THEN Len(trace) ELSE 0, trace \o DropDevice)

\* A slip: the input is set also when none was configured.
OpenConfigure_alwaysInput(b, fmts, parm, inputOk, gparmOk, sparmOk, sfmtOk) ==
    LET t0 == <<Sys("open", [path |-> b.path], TRUE, Void)>>
        f  == FindFormat(fmts, b.format.pixelformat, 0, t0)
        t1 == f.trace
        t2 == t1 \o <<Sys("S_INPUT", N(b.input.val), inputOk, Void)>>
        t3 == t2 \o <<Sys("G_PARM", Void, gparmOk, parm)>>
        t4 == t3 \o <<Sys("S_PARM", WrittenParm(b, parm), sparmOk, Void)>>
        t5 == t4 \o <<Sys("S_FMT", b.format, sfmtOk, Void)>>
    IN  IF ~f.found THEN OpenFail(b, "Unsupported", t1)
        ELSE IF ~inputOk THEN OpenFail(b, "Err", t2)
        ELSE IF ~gparmOk THEN OpenFail(b, "Err", t3)
        ELSE IF ~sparmOk THEN OpenFail(b, "Err", t4)
        ELSE IF ~sfmtOk THEN OpenFail(b, "Err", t5)
        ELSE Call("open", b, "Ok", 0, t5)

\* Builder::open, after V4l2Device::open succeeded.  fmts and parm are what
\* the device answers; the flags say which control operations it accepts.
OpenConfigure(b, fmts, parm, inputOk, gparmOk, sparmOk, sfmtOk) ==
    LET t0 == <<Sys("open", [path |-> b.path], TRUE, Void)>>
        f  == FindFormat(fmts, b.format.pixelformat, 0, t0)
        t1 == f.trace
        t2 == IF b.input.some
              THEN t1 \o <<Sys("S_INPUT", N(b.input.val), inputOk, Void)>> ELSE t1
        t3 == t2 \o <<Sys("G_PARM", Void, gparmOk, parm)>>
        t4 == t3 \o <<Sys("S_PARM", WrittenParm(b, parm), sparmOk, Void)>>
        t5 == t4 \o <<Sys("S_FMT", b.format, sfmtOk, Void)>>
    IN  IF ~f.found THEN OpenFail(b, "Unsupported", t1)
        ELSE IF b.input.some /\ ~inputOk THEN OpenFail(b, "Err", t2)
        ELSE IF ~gparmOk THEN OpenFail(b, "Err", t3)
        ELSE IF ~sparmOk THEN OpenFail(b, "Err", t4)
        ELSE IF ~sfmtOk THEN OpenFail(b, "Err", t5)
        ELSE Call("open", b, "Ok", 0, t5)

\* Builder::open.
OpenResult(b, openOk, fmts, parm, inputOk, gparmOk, sparmOk, sfmtOk) ==
    IF ~openOk
    THEN Call("open", b, "Err", 1, <<Sys("open", [path |-> b.path], FALSE, Void)>>)
    ELSE OpenConfigure(b, fmts, parm, inputOk, gparmOk, sparmOk, sfmtOk)

Open(openOk, fmts, parm, inputOk, gparmOk, sparmOk, sfmtOk) ==
    /\ phase = "building"
    /\ pre' = Snapshot
    /\ UNCHANGED handleVars
    /\ \E r \in {OpenResult(builder, openOk, fmts, parm, inputOk, gparmOk, sparmOk, sfmtOk)} :
           /\ lastCall' = r
           /\ phase' = IF r.result = "Ok" THEN "live" ELSE "dead"
           /\ fd' = IF Closes(r.trace) > 0 THEN "closed"
                    ELSE IF openOk THEN "open" ELSE "none"
           /\ closeCount' = closeCount + Closes(r.trace)
    /\ builder' = with_device("/dev/video0")
    /\ buffers' = <<>>
    /\ UNCHANGED <<kernelVars, callerVars>>

\* ------------------------------------------------------------ kernel side
\* What VIDIOC_QUERYBUF and VIDIOC_DQBUF report for buffer index i: the
\* buffers of one request lie one after the other in the device's offset
\* space.
KernelBuffer(i) == [index |-> i, offset |-> 4096 * i, length |-> 4096]

\* The indices the kernel owns: enqueued, being filled or filled, and not
\* yet dequeued.
KernelOwned == queued

\* VIDIOC_QBUF of index i is accepted when the index exists, the buffer is
\* not already owned by the kernel, and the device does not reject it.
QbufAccepts(i, n, owned, reject) == i < n /\ i \notin owned /\ i \notin reject

\* ------------------------------------------------------------ the pool
\* MmapMut: the mapping made from a descriptor.  `as usize` / `as u64` widen
\* the u32 fields, so the values are kept.  g tells the mappings of one
\* buffer request from those of another.
Mapping(buf, g) == [offset |-> buf.offset, length |-> buf.length, gen |-> g]

\* Dropping a Vec<MmapMut>: every element is unmapped, in order.
Unmap(bufs) == [p \in 1..Len(bufs) |-> Sys("munmap", [offset |-> bufs[p].offset, length |-> bufs[p].length], TRUE, Void)]

\* A slip: the pool is not emptied.
Cleared_keep(bufs) == bufs

\* A slip: the pool is cut down to its first mapping (truncate(1)).
Cleared_keepFirst(bufs) == IF bufs = <<>> THEN <<>> ELSE <<bufs[1]>>

\* self.buffers.clear()
Cleared(bufs) == <<>>

\* if let Ok(mmap) = mmap { self.buffers.push(mmap); }
Pushed(pool, buf, g, ok) == IF ok THEN Append(pool, Mapping(buf, g)) ELSE pool

\* The for loop of prepare_mmapped over Buffers::next: QUERYBUF for index,
\* index+1, ... until the kernel rejects one; each answered descriptor is
\* mapped and pushed when the mapping succeeds.  n is the number of indices
\* the kernel answers for, mapFail the indices whose mmap fails; trace
\* collects the calls.
RECURSIVE MapLoop(_, _, _, _, _, _)
MapLoop(pool, trace, index, n, g, mapFail) ==
    IF index >= n
    THEN [pool |-> pool, trace |-> Append(trace, Sys("QUERYBUF", N(index), FALSE, Void))]
    ELSE LET buf == KernelBuffer(index)
             ok  == index \notin mapFail
         IN  MapLoop(Pushed(pool, buf, g, ok),
                     trace \o <<Sys("QUERYBUF", N(index), TRUE, buf),
                                Sys("mmap", [offset |-> buf.offset, length |-> buf.length],
                                    ok, Void)>>,
                     index + 1, n, g, mapFail)

\* A slip: the borrowed File is dropped instead of forgotten, which closes
\* the descriptor it wraps.
ForgetFile_drop == <<Sys("close", Void, TRUE, Void)>>

\* What prepare_mmapped does with the borrowed File once the loop is over:
\* mem::forget(f) releases nothing.
ForgetFile == <<>>

\* A slip: the pool is cleared before the buffer request is made.
PrepareResult_clearFirst(bufs, count, reqOk, n, g, mapFail) ==
    IF ~reqOk
    THEN [call |-> Call("prepare", N(count), "Err", 1,
                        <<Sys("REQBUFS", N(count), FALSE, Void)>>),
          pool |-> Cleared(bufs)]
    ELSE LET m == MapLoop(Cleared(bufs),
                          <<Sys("REQBUFS", N(count), TRUE, N(n))>> \o Unmap(bufs),
                          0, n, g, mapFail)
         IN  [call |-> Call("prepare", N(count), "Ok", 0, m.trace \o ForgetFile),
              pool |-> m.pool]

\* A slip: a failed mapping is propagated (`map_mut(&f)?`).
PrepareResult_strict(bufs, count, reqOk, n, g, mapFail) ==
    IF ~reqOk \/ mapFail \cap (0..(n - 1)) # {}
    THEN [call |-> Call("prepare", N(count), "Err", 1,
                        <<Sys("REQBUFS", N(count), reqOk, N(n))>>),
          pool |-> bufs]
    ELSE LET m == MapLoop(Cleared(bufs),
                          <<Sys("REQBUFS", N(count), TRUE, N(n))>> \o Unmap(bufs),
                          0, n, g, mapFail)
         IN  [call |-> Call("prepare", N(count), "Ok", 0, m.trace \o ForgetFile),
              pool |-> m.pool]

\* Capture::prepare_mmapped.  `count as u32` keeps every count of the model
\* (all far below 2^32).
PrepareResult(bufs, count, reqOk, n, g, mapFail) ==
    IF ~reqOk
    THEN [call |-> Call("prepare", N(count), "Err", 1,
                        <<Sys("REQBUFS", N(count), FALSE, Void)>>),
          pool |-> bufs]
    ELSE LET m == MapLoop(Cleared(bufs),
                          <<Sys("REQBUFS", N(count), TRUE, N(n))>> \o Unmap(bufs),
                          0, n, g, mapFail)
         IN  [call |-> Call("prepare", N(count), "Ok", 0, m.trace \o ForgetFile),
              pool |-> m.pool]

\* The tag of the request after the one tagged g.
NextGen(g) == 1 - g

\* The counts the kernel can grant for a request of count buffers: none for
\* a request of none, otherwise at least one and possibly more than asked.
Grants(count) == IF count = 0 THEN {0} ELSE 1..MaxGrant

PrepareMmapped(count, reqOk, n, mapFail) ==
    /\ phase = "live"
    /\ pre' = Snapshot
    /\ UNCHANGED handleVars
    /\ reqOk => ~streaming
    /\ \E r \in {PrepareResult(buffers, count, reqOk, n, NextGen(gen), mapFail)} :
           /\ lastCall' = r.call
           /\ buffers' = r.pool
           /\ fd' = IF Closes(r.call.trace) > 0 THEN "closed" ELSE fd
           /\ closeCount' = closeCount + Closes(r.call.trace)
    /\ view' = <<>>
    /\ IF reqOk
       THEN /\ granted' = n
            /\ gen' = NextGen(gen)
            /\ queued' = {}
            /\ held' = {}
            /\ inCycle' = FALSE
            /\ stopped' = FALSE
       ELSE UNCHANGED <<granted, gen, queued, held, inCycle, stopped>>
    /\ UNCHANGED <<phase, builder, streaming>>

\* A slip: unprepare leaves the pool as it is.
UnprepareResult_keep(bufs) ==
    [call |-> Call("unprepare", Void, "Ok", 0, <<>>), pool |-> bufs]

\* A slip: unprepare also asks the kernel to free its buffers.
UnprepareResult_release(bufs) ==
    [call |-> Call("unprepare", Void, "Ok", 0,
                   Unmap(bufs) \o <<Sys("REQBUFS", N(0), TRUE, N(0))>>),
     pool |-> Cleared(bufs)]

\* Capture::unprepare.
UnprepareResult(bufs) ==
    [call |-> Call("unprepare", Void, "Ok", 0, Unmap(bufs)), pool |-> Cleared(bufs)]

Unprepare ==
    /\ phase = "live"
    /\ pre' = Snapshot
    /\ UNCHANGED handleVars
    /\ \E r \in {UnprepareResult(buffers)} :
           /\ lastCall' = r.call
           /\ buffers' = r.pool
    /\ view' = <<>>
    /\ inCycle' = FALSE
    /\ stopped' = FALSE
    /\ UNCHANGED <<phase, builder, fd, closeCount, kernelVars, held>>

\* ------------------------------------------------------------ streaming
\* Slips: the loop walks the indices downwards; the loop starts at 1.
StartIndices_desc(n) == [p \in 1..n |-> n - p]
StartIndices_from1(n) == [p \in 1..n |-> p]

\* The indices start() walks: for i in 0..self.buffers.len().
StartIndices(n) == [p \in 1..n |-> p - 1]

\* A slip: the result of queue_buffer is dropped (no `?`), so the loop runs
\* on after a rejection and reports success.
RECURSIVE QueueLoop_ignoreErr(_, _, _, _, _, _)
QueueLoop_ignoreErr(idx, from, n, owned, reject, q) ==
    IF from > Len(idx)
    THEN q
    ELSE LET i  == idx[from]
             ok == QbufAccepts(i, n, owned, reject)
         IN  QueueLoop_ignoreErr(idx, from + 1, n,
                 IF ok THEN owned \cup {i} ELSE owned, reject,
                 [ok    |-> TRUE,
                  added |-> IF ok THEN q.added \cup {i} ELSE q.added,
                  trace |-> Append(q.trace, Sys("QBUF", N(i), ok, Void))])

\* The loop of Capture::start over idx[from..]: QBUF each index in turn and
\* return at the first rejection (`?`).  owned is the set of indices the
\* kernel owns, n the number of buffers it has, reject the indices the
\* device rejects; q collects the outcome: the indices enqueued, the calls
\* issued, and whether the loop ran through.
RECURSIVE QueueLoop(_, _, _, _, _, _)
QueueLoop(idx, from, n, owned, reject, q) ==
    IF from > Len(idx)
    THEN q
    ELSE LET i == idx[from]
         IN  IF QbufAccepts(i, n, owned, reject)
             THEN QueueLoop(idx, from + 1, n, owned \cup {i}, reject,
                            [ok    |-> TRUE,
                             added |-> q.added \cup {i},
                             trace |-> Append(q.trace, Sys("QBUF", N(i), TRUE, Void))])
             ELSE [ok    |-> FALSE,
                   added |-> q.added,
                   trace |-> Append(q.trace, Sys("QBUF", N(i), FALSE, Void))]

NothingQueued == [ok |-> TRUE, added |-> {}, trace |-> <<>>]

\* Capture::start, given the outcome q of its enqueue loop: the error of the
\* rejected enqueue, or stream-on when the loop ran through.
StartResult(q, onOk) ==
    IF ~q.ok
    THEN [call  |-> Call("start", Void, "Err", Len(q.trace), q.trace),
          added |-> q.added, on |-> FALSE]
    ELSE [call  |-> Call("start", Void, IF onOk THEN "Ok" ELSE "Err",
                         IF onOk THEN 0 ELSE Len(q.trace) + 1,
                         Append(q.trace, Sys("STREAMON", N(1), onOk, Void))),
          added |-> q.added, on |-> onOk]

Start(reject, onOk) ==
    /\ phase = "live"
    /\ pre' = Snapshot
    /\ UNCHANGED handleVars
    /\ \E q \in {QueueLoop(StartIndices(Len(buffers)), 1, granted, KernelOwned,
                            reject, NothingQueued)} :
       \E r \in {StartResult(q, onOk)} :
           /\ lastCall' = r.call
           /\ queued' = queued \cup r.added
           /\ streaming' = (streaming \/ r.on)
           /\ inCycle' = (r.on /\ ~streaming /\ held = {} /\ KernelOwned = {})
           /\ stopped' = (stopped /\ ~r.on)
    /\ view' = <<>>
    /\ UNCHANGED <<phase, builder, fd, closeCount, buffers, granted, gen, held>>

\* A slip: the queue is drained before the stream is turned off.
StopResult_drain(offOk) ==
    Call("stop", Void, IF offOk THEN "Ok" ELSE "Err", IF offOk THEN 0 ELSE 2,
         <<Sys("DQBUF", Void, FALSE, Void), Sys("STREAMOFF", N(1), offOk, Void)>>)

\* Capture::stop.
StopResult(offOk) ==
    Call("stop", Void, IF offOk THEN "Ok" ELSE "Err", IF offOk THEN 0 ELSE 1,
         <<Sys("STREAMOFF", N(1), offOk, Void)>>)

\* A slip: stop also releases the pool.
Stop_release(offOk) ==
    /\ phase = "live"
    /\ pre' = Snapshot
    /\ UNCHANGED handleVars
    /\ lastCall' = StopResult(offOk)
    /\ view' = <<>>
    /\ buffers' = Cleared(buffers)
    /\ IF offOk
       THEN /\ queued' = {}
            /\ streaming' = FALSE
            /\ held' = {}
            /\ inCycle' = FALSE
            /\ stopped' = TRUE
       ELSE UNCHANGED <<queued, streaming, held, inCycle, stopped>>
    /\ UNCHANGED <<phase, builder, fd, closeCount, granted, gen>>

\* A slip: the stream is turned off with the buffers left in the queue.
Stop_keepQueue(offOk) ==
    /\ phase = "live"
    /\ pre' = Snapshot
    /\ UNCHANGED handleVars
    /\ lastCall' = StopResult(offOk)
    /\ view' = <<>>
    /\ IF offOk
       THEN /\ streaming' = FALSE
            /\ held' = {}
            /\ inCycle' = FALSE
            /\ stopped' = TRUE
       ELSE UNCHANGED <<streaming, held, inCycle, stopped>>
    /\ UNCHANGED <<phase, builder, fd, closeCount, buffers, granted, gen, queued>>

\* A successful stream-off takes every buffer out of the kernel's queues.
Stop(offOk) ==
    /\ phase = "live"
    /\ pre' = Snapshot
    /\ UNCHANGED handleVars
    /\ lastCall' = StopResult(offOk)
    /\ view' = <<>>
    /\ IF offOk
       THEN /\ queued' = {}
            /\ streaming' = FALSE
            /\ held' = {}
            /\ inCycle' = FALSE
            /\ stopped' = TRUE
       ELSE UNCHANGED <<queued, streaming, held, inCycle, stopped>>
    /\ UNCHANGED <<phase, builder, fd, closeCount, buffers, granted, gen>>

\* &mut self.buffers[buf.index as usize]: the position of the pool the
\* descriptor's index selects.
PoolSlot(index) == index + 1

\* A slip: take_frame hands the buffer back to the kernel itself.
TakeResult_requeue(bufs, dqOk, i) ==
    IF ~dqOk
    THEN [call |-> Call("take_frame", Void, "Err", 1, <<Sys("DQBUF", Void, FALSE, Void)>>),
          view |-> <<>>]
    ELSE [call |-> Call("take_frame", Void, "Ok", 0,
                        <<Sys("DQBUF", Void, TRUE, KernelBuffer(i)),
                          Sys("QBUF", N(i), TRUE, Void)>>),
          view |-> <<>>]

\* Capture::take_frame.  dqOk: DQBUF returned the descriptor of index i.
\* Indexing past the end of the pool panics.
TakeResult(bufs, dqOk, i) ==
    IF ~dqOk
    THEN [call |-> Call("take_frame", Void, "Err", 1, <<Sys("DQBUF", Void, FALSE, Void)>>),
          view |-> <<>>]
    ELSE IF PoolSlot(i) \in 1..Len(bufs)
    THEN [call |-> Call("take_frame", Void, "Ok", 0,
                        <<Sys("DQBUF", Void, TRUE, KernelBuffer(i))>>),
          view |-> <<bufs[PoolSlot(i)]>>]
    ELSE [call |-> Call("take_frame", Void, "Panic", 0,
                        <<Sys("DQBUF", Void, TRUE, KernelBuffer(i))>>),
          view |-> <<>>]

\* DQBUF on a streaming queue waits until the driver has filled one of the
\* enqueued buffers and hands that one out, whichever it is; with nothing
\* enqueued the call blocks.  It fails on a queue that is not streaming or
\* on a device fault.
TakeFrame(dqOk, i) ==
    /\ phase = "live"
    /\ pre' = Snapshot
    /\ UNCHANGED handleVars
    /\ dqOk => streaming /\ i \in queued
    /\ \E r \in {TakeResult(buffers, dqOk, i)} :
           /\ lastCall' = r.call
           /\ view' = r.view
           /\ held' = IF r.call.result = "Ok" THEN held \cup {i} ELSE held
           /\ inCycle' = (inCycle /\ r.call.result # "Panic")
    /\ queued' = IF dqOk THEN queued \ {i} ELSE queued
    /\ UNCHANGED <<phase, builder, fd, closeCount, buffers, granted, gen, streaming,
                   stopped>>

\* A slip: a zeroed descriptor is enqueued in place of the caller's.
ReturnResult_zeroed(i, accepted) ==
    Call("return_frame", N(i), IF accepted THEN "Ok" ELSE "Err",
         IF accepted THEN 0 ELSE 1, <<Sys("QBUF", N(0), accepted, Void)>>)

\* Capture::return_frame with a descriptor of index i.
ReturnResult(i, accepted) ==
    Call("return_frame", N(i), IF accepted THEN "Ok" ELSE "Err",
         IF accepted THEN 0 ELSE 1, <<Sys("QBUF", N(i), accepted, Void)>>)

\* A slip: return_frame reports success without handing the buffer to the
\* kernel.
ReturnFrame_noop(i, reject) ==
    /\ phase = "live"
    /\ pre' = Snapshot
    /\ UNCHANGED handleVars
    /\ lastCall' = Call("return_frame", N(i), "Ok", 0, <<>>)
    /\ held' = held \ {i}
    /\ view' = <<>>
    /\ UNCHANGED <<phase, builder, fd, closeCount, buffers, granted, gen, queued,
                   streaming, inCycle, stopped>>

ReturnFrame(i, reject) ==
    /\ phase = "live"
    /\ pre' = Snapshot
    /\ UNCHANGED handleVars
    /\ \E accepted \in {QbufAccepts(i, granted, KernelOwned, reject)} :
           /\ lastCall' = ReturnResult(i, accepted)
           /\ queued' = IF accepted THEN queued \cup {i} ELSE queued
           /\ held' = IF accepted THEN held \ {i} ELSE held
    /\ inCycle' = (inCycle /\ i \in held)
    /\ view' = <<>>
    /\ UNCHANGED <<phase, builder, fd, closeCount, buffers, granted, gen, streaming,
                   stopped>>

\* ------------------------------------------------------------ teardown
\* Dropping a Capture: its fields are dropped in declaration order, the
\* device first and the vector of mappings after it.
DropCapture(bufs) == DropDevice \o Unmap(bufs)

\* Closing the descriptor makes the kernel release the queue.
Drop ==
    /\ phase = "live"
    /\ pre' = Snapshot
    /\ UNCHANGED handleVars
    /\ phase' = "dead"
    /\ \E t \in {DropCapture(buffers)} :
           /\ lastCall' = Call("drop", Void, "Ok", 0, t)
           /\ fd' = IF Closes(t) > 0 THEN "closed" ELSE fd
           /\ closeCount' = closeCount + Closes(t)
    /\ buffers' = <<>>
    /\ granted' = 0
    /\ queued' = {}
    /\ streaming' = FALSE
    /\ held' = {}
    /\ view' = <<>>
    /\ inCycle' = FALSE
    /\ stopped' = FALSE
    /\ UNCHANGED <<builder, gen>>

\* ------------------------------------------------------------ the bare handle
\* V4l2Device is public: it can be opened and used without a Capture.
DeviceOpenResult(path, ok) ==
    Call("device_open", [path |-> path], IF ok THEN "Ok" ELSE "Err", IF ok THEN 0 ELSE 1,
         <<Sys("open", [path |-> path], ok, Void)>>)

\* V4l2Device::open.
DeviceOpen(path, ok) ==
    /\ phase = "building"
    /\ phase' = IF ok THEN "handle" ELSE "gone"
    /\ lastCall' = DeviceOpenResult(path, ok)
    /\ handle' = IF ok THEN "open" ELSE "none"
    /\ builder' = with_device("/dev/video0")
    /\ UNCHANGED <<fd, closeCount, buffers, kernelVars, callerVars, pre, handleCloses>>

\* IntoRawFd::into_raw_fd takes the handle by value and returns self.fd;
\* the handle is not forgotten, so it is dropped when the function returns.
IntoRawFdResult == Call("into_raw_fd", Void, "Ok", 0, DropDevice)

IntoRawFd ==
    /\ phase = "handle"
    /\ phase' = "raw"
    /\ \E r \in {IntoRawFdResult} :
           /\ lastCall' = r
           /\ handle' = IF Closes(r.trace) > 0 THEN "closed" ELSE handle
           /\ handleCloses' = handleCloses + Closes(r.trace)
    /\ UNCHANGED <<builder, fd, closeCount, buffers, kernelVars, callerVars, pre>>

\* FromRawFd::from_raw_fd wraps the number it is given.
FromRawFd ==
    /\ phase = "raw"
    /\ handleCloses < MaxCloses
    /\ phase' = "handle"
    /\ lastCall' = Call("from_raw_fd", Void, "Ok", 0, <<>>)
    /\ UNCHANGED <<builder, fd, closeCount, buffers, kernelVars, callerVars, pre,
                   handleVars>>

\* Dropping a V4l2Device.
DropHandle ==
    /\ phase = "handle"
    /\ phase' = "gone"
    /\ \E t \in {DropDevice} :
           /\ lastCall' = Call("drop_device", Void, "Ok", 0, t)
           /\ handle' = IF Closes(t) > 0 THEN "closed" ELSE handle
           /\ handleCloses' = handleCloses + Closes(t)
    /\ UNCHANGED <<builder, fd, closeCount, buffers, kernelVars, callerVars, pre>>

\* ------------------------------------------------------------ specification
Init ==
    /\ phase = "building"
    /\ builder \in {with_device(p) : p \in Paths}
    /\ fd = "none"
    /\ closeCount = 0
    /\ buffers = <<>>
    /\ granted = 0
    /\ gen = 0
    /\ queued = {}
    /\ streaming = FALSE
    /\ held = {}
    /\ view = <<>>
    /\ inCycle = FALSE
    /\ stopped = FALSE
    /\ lastCall = Call("new", Void, "Ok", 0, <<>>)
    /\ handle = "none"
    /\ handleCloses = 0
    /\ pre = [afterUnprepare |-> FALSE, afterStop |-> FALSE, streaming |-> FALSE, stopped |-> FALSE,
              queued |-> {}, held |-> {}]

Indices == 0..(MaxGrant - 1)
\* The device rejects no enqueue, or that of one index of the first n; in
\* the same way no mapping fails, or that of one index of the first n.
Rejects(n) == {{}} \cup {{i} : i \in 0..(n - 1)}

Next ==
    \/ \E p \in Paths : SetDevice(p)
    \/ \E i \in Inputs : SetInput(i)
    \/ SetHighQuality
    \/ \E s \in Sizes : SetVideoSize(s[1], s[2])
    \/ \E f \in FormatCodes : SetPixelFormat(f)
    \/ SetProgressive
    \/ \E t \in FrameTimes : SetTimePerFrame(t[1], t[2])
    \/ \E openOk, inputOk, gparmOk, sparmOk, sfmtOk \in BOOLEAN :
         \E fmts \in DeviceFormatLists, parm \in DeviceParms :
           Open(openOk, fmts, parm, inputOk, gparmOk, sparmOk, sfmtOk)
    \/ \E count \in 0..MaxCount : PrepareMmapped(count, FALSE, 0, {})
    \/ \E count \in 0..MaxCount :
         \E n \in Grants(count) :
           \E mapFail \in Rejects(n) : PrepareMmapped(count, TRUE, n, mapFail)
    \/ Unprepare
    \/ \E reject \in Rejects(Len(buffers)), onOk \in BOOLEAN : Start(reject, onOk)
    \/ \E offOk \in BOOLEAN : Stop(offOk)
    \/ TakeFrame(FALSE, 0)
    \/ \E i \in Indices : TakeFrame(TRUE, i)
    \/ \E i \in 0..MaxGrant :
         \E reject \in (IF QbufAccepts(i, granted, KernelOwned, {}) THEN {{}, {i}} ELSE {{}}) :
           ReturnFrame(i, reject)
    \/ Drop
    \/ \E p \in Paths, ok \in BOOLEAN : DeviceOpen(p, ok)
    \/ IntoRawFd
    \/ FromRawFd
    \/ DropHandle

Spec == Init /\ [][Next]_vars

\* A slip: the descriptor is opened O_NONBLOCK, so a dequeue with nothing to
\* hand out fails at once.
HealthyTakeFrame_nonblock ==
    \/ (~streaming \/ queued = {}) /\ TakeFrame(FALSE, 0)
    \/ \E i \in Indices : TakeFrame(TRUE, i)

\* take_frame on a device that does not fault.  The descriptor is opened
\* O_RDWR without O_NONBLOCK: DQBUF is refused on a queue that is not
\* streaming, hands out a buffer when one is enqueued, and otherwise waits
\* (no step).
HealthyTakeFrame ==
    \/ ~streaming /\ TakeFrame(FALSE, 0)
    \/ \E i \in Indices : TakeFrame(TRUE, i)

\* The same operations on a device that does not fault: a control operation
\* is refused only for the state of the queue (a buffer request or a dequeue
\* in the wrong streaming state, an enqueue of a buffer the kernel has).
HealthyNext ==
    \/ \E p \in Paths : SetDevice(p)
    \/ \E i \in Inputs : SetInput(i)
    \/ SetHighQuality
    \/ \E s \in Sizes : SetVideoSize(s[1], s[2])
    \/ \E f \in FormatCodes : SetPixelFormat(f)
    \/ SetProgressive
    \/ \E t \in FrameTimes : SetTimePerFrame(t[1], t[2])
    \/ \E fmts \in DeviceFormatLists, parm \in DeviceParms :
         Open(TRUE, fmts, parm, TRUE, TRUE, TRUE, TRUE)
    \/ \E count \in 0..MaxCount : streaming /\ PrepareMmapped(count, FALSE, 0, {})
    \/ \E count \in 0..MaxCount :
         \E n \in Grants(count) :
           \E mapFail \in Rejects(n) : PrepareMmapped(count, TRUE, n, mapFail)
    \/ Unprepare
    \/ Start({}, TRUE)
    \/ Stop(TRUE)
    \/ HealthyTakeFrame
    \/ \E i \in 0..MaxGrant : ReturnFrame(i, {})
    \/ Drop

HealthySpec == Init /\ [][HealthyNext]_vars

\* The caller of examples/capture.rs on a device that does not fault: it
\* configures and opens the device, prepares a pool, starts the stream and
\* then only takes a frame and returns it, again and again.
LoopTake == streaming /\ held = {} /\ \E i \in Indices : TakeFrame(TRUE, i)

LoopReturn == streaming /\ \E i \in held : ReturnFrame(i, {})

LoopNext ==
    \/ \E i \in Inputs : SetInput(i)
    \/ \E s \in Sizes : SetVideoSize(s[1], s[2])
    \/ \E f \in FormatCodes : SetPixelFormat(f)
    \/ \E fmts \in DeviceFormatLists, parm \in DeviceParms :
         Open(TRUE, fmts, parm, TRUE, TRUE, TRUE, TRUE)
    \/ \E count \in 0..MaxCount :
         \E n \in Grants(count) :
           \E mapFail \in Rejects(n) : PrepareMmapped(count, TRUE, n, mapFail)
    \/ ~streaming /\ Start({}, TRUE)
    \/ LoopTake
    \/ LoopReturn

\* The kernel completes a buffer that stays enqueued, and the caller goes on
\* to return the frame it took.
LoopSpec == Init /\ [][LoopNext]_vars /\ WF_vars(LoopTake) /\ WF_vars(LoopReturn)

\* ------------------------------------------------------------ properties
\* The trace of the most recent operation.
T == lastCall.trace

\* C1: start() on a pool of N slots issues QBUF for 0,1,...,N-1 in ascending
\* order, each index once, as its first calls; stream-on is issued at most
\* once, only as the call after N successful enqueues; a successful start()
\* issued exactly those N enqueues and then stream-on.
C1_StartEnqueuesAscendingThenStreamOn ==
    lastCall.op = "start" =>
        /\ \A p \in Positions(T, "QBUF") : p <= Len(buffers) /\ T[p].arg = N(p - 1)
        /\ \A p \in Positions(T, "STREAMON") :
              /\ p = Len(buffers) + 1
              /\ \A k \in 1..Len(buffers) :
                    T[k].call = "QBUF" /\ T[k].ok /\ T[k].arg = N(k - 1)
        /\ lastCall.result = "Ok" =>
              /\ Len(T) = Len(buffers) + 1
              /\ T[Len(T)].call = "STREAMON"

C1_Witness ==
    /\ lastCall.op = "start"
    /\ lastCall.result = "Ok"
    /\ Len(buffers) >= 2

\* C2: when the enqueue of index i fails during start(), start() returns
\* that error, issues nothing after it (no higher index, no stream-on), and
\* the indices below i, enqueued by this call, are still owned by the kernel.
C2_StartAbortsAtFailedEnqueue ==
    lastCall.op = "start" =>
        \A p \in Positions(T, "QBUF") :
            ~T[p].ok =>
                /\ lastCall.result = "Err"
                /\ lastCall.errOf = p
                /\ Len(T) = p
                /\ \A k \in 1..(p - 1) :
                      T[k].call = "QBUF" /\ T[k].ok /\ T[k].arg.n \in KernelOwned

C2_Witness ==
    /\ lastCall.op = "start"
    /\ lastCall.result = "Err"
    /\ Len(T) = 2
    /\ T[2].call = "QBUF"
    /\ ~T[2].ok
    /\ Len(buffers) >= 3

\* C3: after a start() on a pool of N slots and complete take/return
\* cycles, every index of 0..N-1 is either owned by the kernel or held by
\* the caller, never both and never neither.
C3_IndicesPartitioned ==
    inCycle =>
        /\ KernelOwned \cup held = 0..(Len(buffers) - 1)
        /\ KernelOwned \cap held = {}

C3_Witness ==
    /\ inCycle
    /\ lastCall.op = "return_frame"
    /\ lastCall.result = "Ok"
    /\ Len(buffers) >= 2
    /\ held # {}

\* C4: on drop of a session every mapped region is unmapped before the
\* descriptor is closed.
C4_UnmapBeforeClose ==
    lastCall.op = "drop" =>
        \A c \in Positions(T, "close"), u \in Positions(T, "munmap") : u < c

\* What prepare saw: the requested count and the count the kernel granted.
Requested == lastCall.arg.n
Granted   == T[1].ret.n
NoMapFailed == \A p \in Positions(T, "mmap") : T[p].ok

\* C5 as stated: a successful prepare(N) yields a pool of size M <= N, and
\* M equals the granted count when no mapping fails.
C5_PoolSizeAtMostRequested ==
    lastCall.op = "prepare" /\ lastCall.result = "Ok" =>
        /\ Len(buffers) <= Requested
        /\ NoMapFailed => Len(buffers) = Granted

\* C5 amended: a successful prepare(N) yields a pool of size M <= G, the
\* count the kernel granted (which can exceed N), and M = G when no mapping
\* fails.
C5_PoolSizeAtMostGranted ==
    lastCall.op = "prepare" /\ lastCall.result = "Ok" =>
        /\ Len(buffers) <= Granted
        /\ Granted = granted
        /\ NoMapFailed => Len(buffers) = Granted

C5_Witness ==
    /\ lastCall.op = "prepare"
    /\ lastCall.result = "Ok"
    /\ Granted > Requested
    /\ Len(buffers) > Requested
    /\ NoMapFailed
    /\ Positions(T, "munmap") # {}

\* C6: take_frame() returns the dequeued descriptor with a view of the
\* mapping made from the offset and length the kernel reported for that
\* descriptor's index.
C6_ViewMatchesDescriptor ==
    lastCall.op = "take_frame" /\ lastCall.result = "Ok" =>
        /\ Len(view) = 1
        /\ view[1].offset = T[1].ret.offset
        /\ view[1].length = T[1].ret.length

\* C7: no slot is owned by the kernel while the caller has a view of it.
C7_NoViewOfKernelOwnedSlot ==
    view # <<>> =>
        \A i \in KernelOwned : KernelBuffer(i).offset # view[1].offset

\* The state of the session as the streaming state machine names it.
SessionState ==
    IF phase # "live" THEN "Closed"
    ELSE IF streaming THEN "Streaming"
    ELSE IF buffers = <<>> THEN "Opened"
    ELSE IF stopped THEN "Stopped"
    ELSE "Prepared"

Moves ==
    {<<"Closed", "open", "Opened">>,
     <<"Opened", "prepare", "Prepared">>,
     <<"Stopped", "prepare", "Prepared">>,
     <<"Prepared", "start", "Streaming">>,
     <<"Streaming", "stop", "Stopped">>,
     <<"Prepared", "unprepare", "Opened">>,
     <<"Stopped", "unprepare", "Opened">>}

\* C8: the session changes state only along the listed transitions (or by
\* being dropped); stream-on is never issued on an empty pool; the pool is
\* not released by an operation on a streaming session.
C8_OnlyListedTransitions ==
    [][/\ \/ SessionState' = SessionState
          \/ lastCall'.op = "drop"
          \/ <<SessionState, lastCall'.op, SessionState'>> \in Moves
       /\ lastCall'.op = "start" /\ Positions(lastCall'.trace, "STREAMON") # {}
              => buffers # <<>>
       /\ SessionState = "Streaming" /\ phase' = "live" => buffers' = buffers
      ]_vars

\* The format codes the device returned to open()'s enumeration.
Enumerated == {T[p].ret.n : p \in {q \in Positions(T, "ENUM_FMT") : T[q].ok}}

\* C9: when the configured pixel format is not among the formats the device
\* enumerates, open() fails with the unsupported-format error and has
\* issued none of set-input, set-stream-parameters, set-format.
C9_UnsupportedFormatRejected ==
    /\ lastCall.op = "open"
    /\ T[1].ok
    /\ lastCall.arg.format.pixelformat \notin Enumerated
    => /\ lastCall.result = "Unsupported"
       /\ \A p \in 1..Len(T) : T[p].call \notin {"S_INPUT", "S_PARM", "S_FMT"}

C9_Witness ==
    /\ lastCall.op = "open"
    /\ lastCall.result = "Unsupported"
    /\ lastCall.arg.input.some
    /\ Cardinality(Enumerated) = 2

\* C10: an opened descriptor is closed exactly once: it is open and was
\* never closed while the session lives (prepare included), and once the
\* session is gone - dropped, or open() failed after opening the device -
\* it has been closed once.
C10_ClosedExactlyOnce ==
    /\ closeCount <= 1
    /\ phase = "live" => fd = "open" /\ closeCount = 0
    /\ phase = "dead" /\ fd # "none" => fd = "closed" /\ closeCount = 1

C10_Witness ==
    /\ phase = "dead"
    /\ lastCall.op = "drop"
    /\ Positions(T, "munmap") # {}
    /\ closeCount = 1

\* The control operations: the ioctl exchanges with the device.
ControlOps ==
    {"ENUM_FMT", "S_INPUT", "G_PARM", "S_PARM", "S_FMT", "REQBUFS", "QUERYBUF",
     "QBUF", "DQBUF", "STREAMON", "STREAMOFF"}

\* C11: when a control operation of a call fails, the call does not return
\* success and issues no control operation after the failed one (so it
\* retries nothing).
C11_FailedControlSurfaces ==
    \A p \in 1..Len(T) :
        T[p].call \in ControlOps /\ ~T[p].ok =>
            /\ lastCall.result # "Ok"
            /\ \A q \in (p + 1)..Len(T) : T[q].call \notin ControlOps

\* The device writes of open().
Writes(call) == Positions(T, call)
AllWrites == Writes("S_INPUT") \cup Writes("S_PARM") \cup Writes("S_FMT")

\* C12: open() writes to the device in the order set-input, set-stream-
\* parameters, set-format, each at most once and all after the format
\* enumeration; nothing is written unless the configured format is among the
\* enumerated ones; set-input is issued, with the configured index, exactly
\* when an input was configured; nothing is written after a failed step;
\* a successful open() has written the parameters and the format.
C12_OpenWritesInOrder ==
    lastCall.op = "open" =>
        /\ \A c \in {"S_INPUT", "S_PARM", "S_FMT"} : Cardinality(Writes(c)) <= 1
        /\ \A i \in Writes("S_INPUT"), s \in Writes("S_PARM") : i < s
        /\ \A i \in Writes("S_INPUT"), f \in Writes("S_FMT") : i < f
        /\ \A s \in Writes("S_PARM"), f \in Writes("S_FMT") : s < f
        /\ \A e \in Positions(T, "ENUM_FMT"), w \in AllWrites : e < w
        /\ AllWrites # {} => lastCall.arg.format.pixelformat \in Enumerated
        /\ T[1].ok /\ lastCall.arg.format.pixelformat \in Enumerated =>
              (Writes("S_INPUT") # {} <=> lastCall.arg.input.some)
        /\ \A i \in Writes("S_INPUT") : T[i].arg = N(lastCall.arg.input.val)
        /\ \A p \in 1..Len(T) : ~T[p].ok => \A w \in AllWrites : w <= p
        /\ lastCall.result = "Ok" =>
              /\ Writes("S_PARM") # {} /\ Writes("S_FMT") # {}
              /\ \A w \in AllWrites : T[w].ok

C12_Witness ==
    /\ lastCall.op = "open"
    /\ lastCall.arg.input.some
    /\ \E s \in Writes("S_PARM") : ~T[s].ok
    /\ Writes("S_INPUT") # {}
    /\ Writes("S_FMT") = {}

\* C13: the stream parameters open() writes carry the configured capture
\* mode; their frame time is the configured one when the capability mask
\* the device reported has the per-frame-time bit (0x1000), and the one the
\* device reported when it has not.
C13_FrameTimeUnderCapabilityBit ==
    lastCall.op = "open" =>
        \A s \in Positions(T, "S_PARM") :
            /\ Positions(T, "G_PARM") = {s - 1}
            /\ T[s].arg.capturemode = lastCall.arg.capturemode
            /\ IF (T[s - 1].ret.capability \div 4096) % 2 = 1
               THEN T[s].arg.timeperframe = lastCall.arg.timeperframe
               ELSE T[s].arg.timeperframe = T[s - 1].ret.timeperframe

C13_Witness ==
    /\ lastCall.op = "open"
    /\ lastCall.arg.capturemode = V4L2_MODE_HIGHQUALITY
    /\ lastCall.arg.timeperframe = <<1, 60>>
    /\ \E s \in Positions(T, "S_PARM") :
          /\ T[s - 1].ret.capability = V4L2_MODE_HIGHQUALITY
          /\ T[s].arg.timeperframe = <<1, 25>>
          /\ T[s].arg.capturemode = V4L2_MODE_HIGHQUALITY

\* C14: stop() on a streaming session issues one stream-off and nothing
\* else (no dequeue, no enqueue); it succeeds exactly when the device accepts
\* the stream-off, whatever is queued or held, and then the stream is off and
\* the session is Stopped; a stop() the device would accept can be called in
\* every streaming state.
C14_StopFromStreaming ==
    /\ phase = "live" /\ streaming => ENABLED Stop(TRUE)
    /\ lastCall.op = "stop" /\ pre.streaming =>
        /\ Len(T) = 1
        /\ T[1].call = "STREAMOFF"
        /\ lastCall.result = "Ok" <=> T[1].ok
        /\ T[1].ok =>
              /\ ~streaming
              /\ stopped
              /\ KernelOwned = {}
              /\ buffers # <<>> => SessionState = "Stopped"

C14_Witness ==
    /\ lastCall.op = "stop"
    /\ lastCall.result = "Ok"
    /\ pre.streaming
    /\ pre.queued # {}
    /\ pre.held # {}
    /\ SessionState = "Stopped"

\* The regions a mapping call and a mapping of the pool stand for.
Region(m) == [offset |-> m.offset, length |-> m.length]
\* The mappings the most recent operation created, in order.
Created == SelectSeq(T, LAMBDA c : c.call = "mmap" /\ c.ok)

\* C15: unprepare() unmaps every mapping of the pool, each once, and leaves
\* the pool empty.  A prepare() called next, with the stream off, can
\* succeed, and succeeds exactly when the buffer request is accepted; its
\* pool consists of the mappings this prepare created, all of the new buffer
\* request, which is not the request the released pool was made for.
C15_UnprepareThenFreshPool ==
    /\ [](/\ lastCall.op = "unprepare" =>
                /\ buffers = <<>>
                /\ \A p \in 1..Len(T) : T[p].call = "munmap" /\ T[p].ok
          /\ phase = "live" /\ lastCall.op = "unprepare" /\ ~streaming =>
                ENABLED (\E n \in Grants(1) : PrepareMmapped(1, TRUE, n, {}))
          /\ lastCall.op = "prepare" /\ pre.afterUnprepare =>
                /\ lastCall.result = "Ok" <=> T[1].ok
                /\ lastCall.result = "Ok" =>
                      /\ Positions(T, "munmap") = {}
                      /\ Len(buffers) = Len(Created)
                      /\ \A k \in 1..Len(buffers) :
                            /\ Region(buffers[k]) = Created[k].arg
                            /\ buffers[k].gen = gen)
    /\ [][/\ lastCall'.op = "unprepare" /\ phase = "live" =>
                /\ Len(lastCall'.trace) = Len(buffers)
                /\ \A p \in 1..Len(buffers) :
                      lastCall'.trace[p].arg = Region(buffers[p])
          /\ lastCall'.op = "prepare" /\ lastCall'.result = "Ok" =>
                /\ gen' # gen
                /\ \A k \in 1..Len(buffers'), j \in 1..Len(buffers) :
                      buffers'[k] # buffers[j]
         ]_vars

C15_Witness ==
    /\ lastCall.op = "prepare"
    /\ lastCall.result = "Ok"
    /\ pre.afterUnprepare
    /\ gen = 0
    /\ Len(buffers) >= 2

\* C16: unprepare() can be called in every state of a session; it returns
\* without error and issues no control operation; called on an empty pool,
\* or right after another unprepare(), it issues nothing at all and changes
\* neither the pool, nor the descriptor, nor the kernel's queue.
C16_UnprepareIdempotent ==
    /\ [](/\ phase = "live" => ENABLED Unprepare
          /\ lastCall.op = "unprepare" =>
                /\ lastCall.result = "Ok"
                /\ \A p \in 1..Len(T) : T[p].call \notin ControlOps
                /\ pre.afterUnprepare => T = <<>> /\ buffers = <<>>)
    /\ [][lastCall'.op = "unprepare" /\ (buffers = <<>> \/ lastCall.op = "unprepare") =>
              /\ lastCall'.trace = <<>>
              /\ UNCHANGED <<phase, fd, closeCount, buffers, kernelVars, held>>
              /\ lastCall.op = "unprepare" => UNCHANGED <<view, inCycle, stopped>>
         ]_vars

C16_Witness ==
    /\ lastCall.op = "unprepare"
    /\ pre.afterUnprepare
    /\ T = <<>>
    /\ streaming
    /\ KernelOwned # {}

\* Every slot of a non-empty pool was taken in this streaming cycle and none
\* is back with the kernel.
AllTaken ==
    /\ phase = "live"
    /\ streaming
    /\ inCycle
    /\ buffers # <<>>
    /\ held = 0..(Len(buffers) - 1)

\* C17: on a device that does not fault, once every slot has been taken and
\* none returned the kernel has nothing to hand out and take_frame does not
\* complete, neither with a frame nor with an error; it completes as soon
\* as a slot is enqueued again; and the one-slot-back state is reached from
\* the all-taken state by return_frame.
C17_TakeFrameStalls ==
    /\ [](/\ AllTaken => KernelOwned = {} /\ ~ENABLED HealthyTakeFrame
          /\ phase = "live" /\ streaming /\ KernelOwned = {} => ~ENABLED HealthyTakeFrame
          /\ phase = "live" /\ streaming /\ KernelOwned # {} => ENABLED HealthyTakeFrame)
    /\ [][/\ AllTaken => lastCall'.op # "take_frame"
          /\ AllTaken /\ inCycle' /\ KernelOwned' # {} =>
                lastCall'.op = "return_frame" /\ lastCall'.result = "Ok"
         ]_vars

C17_Witness ==
    /\ AllTaken
    /\ Len(buffers) >= 2
    /\ lastCall.op = "take_frame"
    /\ lastCall.result = "Ok"
    /\ ~ENABLED HealthyTakeFrame

\* C18: take_frame() issues one dequeue and nothing else; it enqueues
\* nothing: a successful one takes exactly the index of the descriptor it
\* returns out of the kernel's queue, a failed one leaves the queue as it
\* is; and in a streaming cycle an index the caller holds gets back into
\* the queue only by a return_frame for that index.
C18_TakeFrameDoesNotReturn ==
    /\ [](lastCall.op = "take_frame" =>
            /\ Len(T) = 1
            /\ T[1].call = "DQBUF"
            /\ Positions(T, "QBUF") = {}
            /\ lastCall.result = "Ok" =>
                  /\ T[1].ok
                  /\ T[1].ret.index \notin KernelOwned
                  /\ T[1].ret.index \in held)
    /\ [][/\ lastCall'.op = "take_frame" =>
                /\ KernelOwned' \subseteq KernelOwned
                /\ lastCall'.result = "Ok" =>
                      KernelOwned' = KernelOwned \ {lastCall'.trace[1].ret.index}
                /\ lastCall'.result = "Err" => KernelOwned' = KernelOwned
          /\ \A i \in held :
                inCycle' /\ i \notin KernelOwned /\ i \in KernelOwned' =>
                    lastCall'.op = "return_frame" /\ lastCall'.arg = N(i)
         ]_vars

C18_Witness ==
    /\ lastCall.op = "take_frame"
    /\ lastCall.result = "Ok"
    /\ inCycle
    /\ Cardinality(held) = 2
    /\ KernelOwned # {}

\* C19: the session holds one pool: every mapping it holds was made for the
\* kernel's current buffer request, no two of them for the same buffer, and
\* not more than that request has buffers; a successful prepare on a session
\* that has a pool unmaps every mapping of that pool and keeps none of them.
C19_OnePool ==
    /\ [](/\ \A k \in 1..Len(buffers) : buffers[k].gen = gen
          /\ \A k, j \in 1..Len(buffers) : k # j => buffers[k] # buffers[j]
          /\ Len(buffers) <= granted
          /\ \A k \in 1..Len(buffers) :
                \E i \in 0..(granted - 1) : Region(buffers[k]) = Region(KernelBuffer(i)))
    /\ [][lastCall'.op = "prepare" /\ lastCall'.result = "Ok" =>
              /\ \A j \in 1..Len(buffers) :
                    /\ \E p \in Positions(lastCall'.trace, "munmap") :
                          lastCall'.trace[p].arg = Region(buffers[j])
                    /\ \A k \in 1..Len(buffers') : buffers'[k] # buffers[j]
              /\ \A k \in 1..Len(buffers') : buffers'[k].gen = gen' /\ gen' # gen
         ]_vars

C19_Witness ==
    /\ lastCall.op = "prepare"
    /\ lastCall.result = "Ok"
    /\ Cardinality(Positions(T, "munmap")) >= 2
    /\ Len(buffers) >= 1
    /\ ~pre.afterUnprepare

\* The mapping calls of the most recent operation that failed.
FailedMaps == {p \in Positions(T, "mmap") : ~T[p].ok}

\* C20: a prepare() whose buffer request was accepted returns success with
\* no error recorded, whether or not mappings failed; a failed mapping is
\* followed by the query of the next index; the pool holds the mappings that
\* succeeded, in order, so it is smaller than the granted count by the
\* number of failed mappings - strictly smaller when one failed.
C20_FailedMappingSkippedSilently ==
    lastCall.op = "prepare" /\ T[1].ok =>
        /\ lastCall.result = "Ok"
        /\ lastCall.errOf = 0
        /\ \A p \in FailedMaps : p < Len(T) /\ T[p + 1].call = "QUERYBUF"
        /\ Len(buffers) = Granted - Cardinality(FailedMaps)
        /\ FailedMaps # {} => Len(buffers) < Granted
        /\ Len(buffers) = Len(Created)
        /\ \A k \in 1..Len(buffers) : Region(buffers[k]) = Created[k].arg

C20_Witness ==
    /\ lastCall.op = "prepare"
    /\ lastCall.result = "Ok"
    /\ Granted = 3
    /\ FailedMaps # {}
    /\ Len(buffers) = 2
    /\ Region(buffers[2]) = Region(KernelBuffer(2))
    /\ Region(buffers[1]) = Region(KernelBuffer(0))

\* C21: while the Builder is being configured nothing is issued to a device:
\* a setter changes the Builder and nothing else, no descriptor exists and
\* no call has been made; open() sends the values the Builder holds when it
\* is called - the path, the input, the capture mode, the format - which
\* for a field set several times is the value set last.
C21_SettersIssueNothing ==
    /\ [](phase = "building" => fd = "none" /\ lastCall.op = "new" /\ T = <<>>)
    /\ [][/\ phase = "building" /\ phase' = "building" =>
                UNCHANGED <<fd, closeCount, buffers, kernelVars, lastCall>>
          /\ phase = "building" /\ lastCall'.op = "open" =>
                /\ lastCall'.arg = builder
                /\ lastCall'.trace[1].arg = [path |-> builder.path]
                /\ \A p \in Positions(lastCall'.trace, "S_INPUT") :
                      builder.input.some /\ lastCall'.trace[p].arg = N(builder.input.val)
                /\ \A p \in Positions(lastCall'.trace, "S_PARM") :
                      lastCall'.trace[p].arg.capturemode = builder.capturemode
                /\ \A p \in Positions(lastCall'.trace, "S_FMT") :
                      lastCall'.trace[p].arg = builder.format
         ]_vars

C21_Witness ==
    /\ lastCall.op = "open"
    /\ lastCall.result = "Ok"
    /\ lastCall.arg.path = "/dev/video1"
    /\ lastCall.arg.input = [some |-> TRUE, val |-> 1]
    /\ \E p \in Positions(T, "S_FMT") :
          T[p].arg = [width |-> 640, height |-> 480, pixelformat |-> 2,
                      field |-> V4L2_FIELD_NONE]
    /\ \E p \in Positions(T, "S_PARM") : T[p].arg.capturemode = V4L2_MODE_HIGHQUALITY

\* C22: return_frame(descriptor) issues one enqueue, for the index of the
\* descriptor, and its result is the result of that enqueue; it changes
\* neither the pool nor the descriptor nor the streaming state; when it
\* succeeds that index, and only it, is added to the kernel's queue; when
\* the index is already in the queue it fails, and a failed return_frame
\* leaves the queue as it is.
C22_ReturnFrameEnqueuesOne ==
    /\ [](lastCall.op = "return_frame" =>
            /\ Len(T) = 1
            /\ T[1].call = "QBUF"
            /\ T[1].arg = lastCall.arg
            /\ lastCall.result = "Ok" <=> T[1].ok
            /\ lastCall.result = "Ok" => lastCall.arg.n \in KernelOwned)
    /\ [][lastCall'.op = "return_frame" =>
              /\ UNCHANGED <<phase, builder, fd, closeCount, buffers, granted, gen,
                             streaming>>
              /\ lastCall'.arg.n \in KernelOwned => lastCall'.result = "Err"
              /\ lastCall'.result = "Err" => KernelOwned' = KernelOwned
              /\ lastCall'.result = "Ok" =>
                    /\ lastCall'.arg.n \notin KernelOwned
                    /\ KernelOwned' = KernelOwned \cup {lastCall'.arg.n}
         ]_vars

C22_Witness ==
    /\ lastCall.op = "return_frame"
    /\ lastCall.result = "Err"
    /\ streaming
    /\ lastCall.arg.n \in pre.queued
    /\ lastCall.arg.n \notin pre.held
    /\ KernelOwned = pre.queued
    /\ pre.held # {}

\* C23: the index of a descriptor take_frame dequeued is smaller than the
\* size of the pool, and take_frame does not panic.
C23_TakenIndexInsidePool ==
    lastCall.op = "take_frame" =>
        /\ lastCall.result # "Panic"
        /\ T[1].ok => T[1].ret.index < Len(buffers)

\* C24: when the buffer request of prepare() fails, prepare() returns the
\* error of the request, has issued nothing but the request (no query, no
\* mapping, no unmapping), and the pool is as it was: same length, same
\* mapping at every position.
C24_FailedRequestKeepsPool ==
    /\ [](lastCall.op = "prepare" /\ ~T[1].ok =>
            /\ lastCall.result = "Err"
            /\ lastCall.errOf = 1
            /\ Len(T) = 1
            /\ T[1].call = "REQBUFS"
            /\ T[1].arg = lastCall.arg)
    /\ [][lastCall'.op = "prepare" /\ ~lastCall'.trace[1].ok =>
              UNCHANGED <<buffers, granted, gen, queued, streaming, fd>>
         ]_vars

C24_Witness ==
    /\ lastCall.op = "prepare"
    /\ lastCall.result = "Err"
    /\ Len(buffers) >= 2
    /\ buffers[1] # buffers[2]
    /\ ~streaming

\* The stream is on over a pool of at least one slot.
Looping == phase = "live" /\ streaming /\ buffers # <<>>

\* C25: in the take/return loop over a pool of N >= 1 slots, with a kernel
\* that completes enqueued buffers and a caller that returns each frame
\* before it takes the next, a take_frame the caller is about to make
\* returns a frame, and the frame it holds is returned: the loop goes on
\* for ever.
C25_LoopNeverDeadlocks ==
    /\ (Looping /\ held = {}) ~>
           (lastCall.op = "take_frame" /\ lastCall.result = "Ok" /\ held # {})
    /\ (Looping /\ held # {}) ~>
           (lastCall.op = "return_frame" /\ lastCall.result = "Ok" /\ held = {})

C25_Witness ==
    /\ Looping
    /\ lastCall.op = "take_frame"
    /\ lastCall.result = "Ok"
    /\ T[1].ret.index = 1
    /\ pre.held = {}
    /\ pre.queued = 0..(Len(buffers) - 1)
    /\ Len(buffers) = 2

\* C26: on a device that does not fault, a start() called right after a
\* successful stop() succeeds with no buffer request in between: it
\* enqueues every index 0..N-1 of the pool, in ascending order, each
\* accepted, then issues stream-on; afterwards the kernel has all N
\* buffers and the stream is on.
C26_RestartAfterStop ==
    lastCall.op = "start" /\ pre.afterStop =>
        /\ lastCall.result = "Ok"
        /\ Len(T) = Len(buffers) + 1
        /\ \A p \in 1..Len(buffers) :
              T[p].call = "QBUF" /\ T[p].arg = N(p - 1) /\ T[p].ok
        /\ T[Len(T)].call = "STREAMON" /\ T[Len(T)].ok
        /\ KernelOwned = 0..(Len(buffers) - 1)
        /\ streaming
        /\ ~pre.streaming /\ pre.queued = {}

C26_Witness ==
    /\ lastCall.op = "start"
    /\ lastCall.result = "Ok"
    /\ pre.afterStop
    /\ pre.stopped
    /\ Len(buffers) = 3
    /\ inCycle

\* C27: into_raw_fd hands out a descriptor that is still open - the
\* conversion issues no close - and the handle code closes a descriptor at
\* most once.
C27_IntoRawFdKeepsOpen ==
    /\ lastCall.op = "into_raw_fd" => handle = "open" /\ Positions(T, "close") = {}
    /\ handleCloses <= 1

\* C28: a step of start(), of stop(), of return_frame() or of a take_frame()
\* that hands out no frame leaves the pool as it is - as many mappings, the
\* same mapping at every position - whether the call succeeds or fails.
C28_PoolUnchanged ==
    [][\/ lastCall'.op \in {"start", "stop", "return_frame"}
       \/ lastCall'.op = "take_frame" /\ lastCall'.result # "Ok"
       => /\ Len(buffers') = Len(buffers)
          /\ \A k \in 1..Len(buffers) : buffers'[k] = buffers[k]
      ]_vars

C28_Witness ==
    /\ lastCall.op = "take_frame"
    /\ lastCall.result = "Err"
    /\ streaming
    /\ Len(buffers) = 3
    /\ pre.held # {}
    /\ pre.queued # {}

====
